---- MODULE Spec2Model ----
(***************************************************************************)
(* Model of display_table (src/edit_table.py): a Streamlit helper that     *)
(* draws a table row by row into the host surface and wires an "Edit"      *)
(* button per data row to a caller-supplied callback.                      *)
(*                                                                         *)
(* A Streamlit app is a script that the host re-executes from the top on   *)
(* every user interaction.  The state is the script (its display_table     *)
(* calls), what the last run drew on the surface, and a log of what the    *)
(* edit callback received.  Row and slot indices are 0-based as in the     *)
(* source; TLA+ sequences are 1-based, so row j is table_data[j + 1].      *)
(***************************************************************************)
EXTENDS Integers, Sequences, FiniteSets, TLC

(* ---------------------------- bounds ----------------------------------- *)
MaxRows == 3
MaxCols == 3
MaxLayout == 3
MaxActivations == 2
MaxTables == 2
MaxRowsT == 1
MaxColsT == 2

(* ------------------------- input domains ------------------------------- *)
NoColor == "None"

HeaderColors == {NoColor, "rgba(151, 166, 195, 0.25)"}

SeqsFromTo(S, lo, hi) == UNION {[1..n -> S] : n \in lo..hi}

\* The shape of a table: the length of each of its rows.  A row carries at
\* least one cell, the identifier the docstring assumes.
ShapesUpTo(maxRows, maxCols) == SeqsFromTo(1..maxCols, 0, maxRows)

\* Cell texts: either every cell of the table is different (its text names
\* its row and column), or all cells hold the same text.
Fills == {"distinct", "same"}

CellText(fill, j, k) ==
    IF fill = "distinct" THEN "r" \o ToString(j) \o "c" \o ToString(k) ELSE "x"

TableOf(shape, fill) ==
    [j1 \in 1..Len(shape) |-> [k1 \in 1..shape[j1] |-> CellText(fill, j1 - 1, k1 - 1)]]

TablesUpTo(maxRows, maxCols) ==
    {TableOf(shape, fill) : shape \in ShapesUpTo(maxRows, maxCols), fill \in Fills}

\* column_formatting: 0 stands for None (0 is falsy as well); n > 0 stands
\* for the integer n or a list of n weights, both of which yield n columns.
\* edit_function: TRUE when a callable is passed.
ArgsOver(tables) ==
    [table_data : tables,
     column_formatting : 0..MaxLayout,
     edit_function : BOOLEAN,
     has_header : BOOLEAN,
     header_color : HeaderColors,
     alternating_row_colors : BOOLEAN]

Args == ArgsOver(TablesUpTo(MaxRows, MaxCols))

Options ==
    [column_formatting : 0..MaxLayout,
     edit_function : BOOLEAN,
     has_header : BOOLEAN,
     header_color : HeaderColors,
     alternating_row_colors : BOOLEAN]

WithTable(o, td) ==
    [table_data |-> td,
     column_formatting |-> o.column_formatting,
     edit_function |-> o.edit_function,
     has_header |-> o.has_header,
     header_color |-> o.header_color,
     alternating_row_colors |-> o.alternating_row_colors]

(* --------------------------- host values ------------------------------- *)
SecondaryBackgroundColor == "theme.secondaryBackgroundColor"

Transparent == "transparent"

Unstyled == "unstyled"

NoEdit == -1

Unbound == -1

NoClick == "none"

NoError == "none"

(* ------------------------ display_table -------------------------------- *)
TableKey == "rnd_table"

RowKey(j) == "row_" \o ToString(j)

EditKey(j) == "edit_" \o ToString(j)

\* RowStyle with the two tests in the other order: alternation before header.
RowStyleAlternationFirst(j, header_color, alternating_row_colors) ==
    IF alternating_row_colors /\ ((j + 1) % 2 # 0)
    THEN SecondaryBackgroundColor
    ELSE IF j = 0 /\ header_color # NoColor
         THEN header_color
         ELSE Transparent

\* lines 64-70
RowStyle(j, header_color, alternating_row_colors) ==
    IF j = 0 /\ header_color # NoColor
    THEN header_color
    ELSE IF alternating_row_colors /\ ((j + 1) % 2 # 0)
         THEN SecondaryBackgroundColor
         ELSE Transparent

\* SlotSpec counting only the cells after the identifier.
SlotSpecVisibleOnly(row, column_formatting) ==
    IF column_formatting = 0 THEN Len(row) - 1 ELSE column_formatting

\* line 72: st.columns(len(row) if not column_formatting else column_formatting)
SlotSpec(row, column_formatting) ==
    IF column_formatting = 0 THEN Len(row) ELSE column_formatting

\* VisibleCells that never drops the identifier.
VisibleCellsKeepId(row, edit_function) == row

\* line 74: row[1:] if edit_function else row
VisibleCells(row, edit_function) ==
    IF edit_function THEN Tail(row) ELSE row

\* line 75: if j == 0 -> markdown("***" + col + "***"), else write(col)
Emphasized(j, has_header) == j = 0

\* ShowsAction that suppresses the action on row 0 whatever has_header says.
ShowsActionNeverOnRowZero(j, edit_function, has_header) ==
    edit_function /\ j # 0

\* line 80
ShowsAction(j, edit_function, has_header) ==
    edit_function /\ (j # 0 \/ ~has_header)

\* ButtonPressed that fires every button of the run that follows a click.
ButtonPressedAnyClick(clicked, key) == clicked # NoClick

\* line 82: st.button returns True in the run that follows a click on it
ButtonPressed(clicked, key) == clicked = key

\* EditArg passing the last cell of the row instead of the first.
EditArgLastCell(row) == row[Len(row)]

\* line 84: edit_function(row[0])
EditArg(row) == row[1]

Min(a, b) == IF a < b THEN a ELSE b

\* lines 74-78: the cells the loop draws before it ends or columns[i] raises
DrawnCells(j, vis, nslots, has_header) ==
    [k \in 1..Min(Len(vis), nslots) |->
        [slot |-> k - 1, text |-> vis[k], emphasized |-> Emphasized(j, has_header)]]

\* The loop variable i after the loop of line 74: the last index it took,
\* or its previous value (it is a function-scope local) when the loop body
\* never ran.
LoopVarAfter(vis, i) == IF Len(vis) > 0 THEN Len(vis) - 1 ELSE i

DuplicateKey == "StreamlitDuplicateElementKey"

\* How lines 71-86 end for one row: normally, or with the first exception
\* raised.  i2 is the loop variable after the cell loop, keys the identity
\* keys the host has registered so far in this run.
RowOutcome(j, nslots, vis, i2, action, keys) ==
    IF RowKey(j) \in keys THEN DuplicateKey
    ELSE IF Len(vis) > nslots THEN "IndexError"
    ELSE IF ~action THEN NoError
    ELSE IF i2 = Unbound THEN "UnboundLocalError"
    ELSE IF i2 + 1 >= nslots THEN "IndexError"
    ELSE IF EditKey(j) \in keys THEN DuplicateKey
    ELSE NoError

\* What lines 71-86 leave on the surface for one row, given how they end.
RowDrawn(j, style, nslots, cells, i2, action, err, keys) ==
    [j |-> j,
     key |-> RowKey(j),
     nslots |-> IF RowKey(j) \in keys THEN 0 ELSE nslots,
     cells |-> IF RowKey(j) \in keys THEN <<>> ELSE cells,
     edit |-> IF err = NoError /\ action THEN i2 + 1 ELSE NoEdit,
     editKey |-> IF err = NoError /\ action THEN EditKey(j) ELSE "",
     style |-> IF err = NoError THEN style ELSE Unstyled,
     done |-> err = NoError]

\* The keys a row adds to the host's registry.
RowKeys(j, action, err, keys) ==
    IF RowKey(j) \in keys THEN {}
    ELSE IF err = NoError /\ action THEN {RowKey(j), EditKey(j)}
    ELSE {RowKey(j)}

\* lines 82-84: the callback runs when the button is drawn and reports a click
RowCalls(j, row, action, err, clicked) ==
    IF err = NoError /\ action /\ ButtonPressed(clicked, EditKey(j))
    THEN <<EditArg(row)>>
    ELSE <<>>

RowResult(j, row, style, nslots, cells, i2, action, err, keys, clicked) ==
    [row |-> RowDrawn(j, style, nslots, cells, i2, action, err, keys),
     i |-> i2,
     keys |-> keys \cup RowKeys(j, action, err, keys),
     err |-> err,
     calls |-> RowCalls(j, row, action, err, clicked)]

RowSteps(j, row, style, nslots, vis, cells, i2, action, keys, clicked) ==
    RowResult(j, row, style, nslots, cells, i2, action,
              RowOutcome(j, nslots, vis, i2, action, keys), keys, clicked)

RowCells(j, row, a, style, nslots, vis, i, keys, clicked) ==
    RowSteps(j, row, style, nslots, vis,
             DrawnCells(j, vis, nslots, a.has_header),
             LoopVarAfter(vis, i),
             ShowsAction(j, a.edit_function, a.has_header),
             keys, clicked)

\* lines 63-86 for one row.  i is the loop variable left by earlier rows.
RenderRow(j, row, a, i, keys, clicked) ==
    RowCells(j, row, a,
             RowStyle(j, a.header_color, a.alternating_row_colors),
             SlotSpec(row, a.column_formatting),
             VisibleCells(row, a.edit_function),
             i, keys, clicked)

RECURSIVE RenderRows(_, _, _, _, _)
RECURSIVE AfterRow(_, _, _, _, _)
\* line 62: for j, row in enumerate(table_data); acc is the table drawn so
\* far, with the loop variable i and the host's key registry.
RenderRows(j, a, clicked, acc, i) ==
    IF j >= Len(a.table_data)
    THEN acc
    ELSE AfterRow(j, a, clicked, acc,
                  RenderRow(j, a.table_data[j + 1], a, i, acc.keys, clicked))

\* The loop goes on to the next row unless the row raised.
AfterRow(j, a, clicked, acc, r) ==
    IF r.err # NoError
    THEN [rows |-> Append(acc.rows, r.row), err |-> r.err,
          calls |-> acc.calls \o r.calls, keys |-> r.keys]
    ELSE RenderRows(j + 1, a, clicked,
                    [rows |-> Append(acc.rows, r.row), err |-> NoError,
                     calls |-> acc.calls \o r.calls, keys |-> r.keys],
                    r.i)

\* lines 59-86: one call of display_table; keys is the host's key registry.
display_table(a, keys, clicked) ==
    IF TableKey \in keys
    THEN [rows |-> <<>>, err |-> DuplicateKey, calls |-> <<>>, keys |-> keys]
    ELSE RenderRows(0, a, clicked,
                    [rows |-> <<>>, err |-> NoError, calls |-> <<>>,
                     keys |-> keys \cup {TableKey}],
                    Unbound)

\* The keys a display_table call asked the host for.
Requested(t, keys) ==
    IF TableKey \in keys THEN {TableKey} ELSE t.keys \ keys

RECURSIVE RunScript(_, _, _, _)
RECURSIVE AfterTable(_, _, _, _, _)
\* One run of the app script: its display_table calls in order, until one raises.
RunScript(s, n, clicked, acc) ==
    IF n > Len(s) \/ acc.err # NoError
    THEN acc
    ELSE AfterTable(s, n, clicked, acc, display_table(s[n], acc.keys, clicked))

AfterTable(s, n, clicked, acc, t) ==
    RunScript(s, n + 1, clicked,
              [tables |-> Append(acc.tables,
                                 [rows |-> t.rows, err |-> t.err,
                                  requested |-> Requested(t, acc.keys)]),
               calls |-> acc.calls \o t.calls,
               keys |-> t.keys,
               err |-> t.err])

EmptyRun == [tables |-> <<>>, calls |-> <<>>, keys |-> {}, err |-> NoError]

(* ----------------------------- state ----------------------------------- *)
VARIABLES script, surface, lastClick, lastCalls, activations, invocations

vars == <<script, surface, lastClick, lastCalls, activations, invocations>>

NoRow == [t |-> 0, r |-> -1]

Init ==
    /\ script \in {<<a>> : a \in Args}
    /\ surface = <<>>
    /\ lastClick = NoRow
    /\ lastCalls = <<>>
    /\ activations = 0
    /\ invocations = 0

InitTables ==
    /\ \E o \in Options, n \in 1..MaxTables :
          script \in {[k \in 1..n |-> WithTable(o, tds[k])] :
                        tds \in [1..n -> TablesUpTo(MaxRowsT, MaxColsT)]}
    /\ surface = <<>>
    /\ lastClick = NoRow
    /\ lastCalls = <<>>
    /\ activations = 0
    /\ invocations = 0

\* What a run of the script leaves behind.
Rerun(res) ==
    /\ surface' = res.tables
    /\ lastCalls' = res.calls
    /\ invocations' = invocations + Len(res.calls)

\* The host runs the script with no Edit button activated (first load, or a
\* rerun caused by anything else).
Run ==
    /\ Rerun(RunScript(script, 1, NoClick, EmptyRun))
    /\ lastClick' = NoRow
    /\ UNCHANGED <<script, activations>>

\* The user activates the Edit button shown on row r of table t; the host
\* re-executes the script, in which st.button returns True for that key.
Click(t, r) ==
    /\ activations < MaxActivations
    /\ t \in 1..Len(surface)
    /\ r + 1 \in 1..Len(surface[t].rows)
    /\ surface[t].rows[r + 1].edit # NoEdit
    /\ Rerun(RunScript(script, 1, surface[t].rows[r + 1].editKey, EmptyRun))
    /\ lastClick' = [t |-> t, r |-> r]
    /\ activations' = activations + 1
    /\ UNCHANGED script

Next ==
    \/ Run
    \/ \E t \in 1..Len(surface) : \E r \in 0..(Len(surface[t].rows) - 1) : Click(t, r)

Spec == Init /\ [][Next]_vars

SpecTables == InitTables /\ [][Next]_vars

(* ------------------- reading the script and the surface ---------------- *)
\* The (table, row index) pairs the last run put on the surface.
SurfaceRows ==
    UNION {{<<t, j>> : j \in 0..(Len(surface[t].rows) - 1)} : t \in 1..Len(surface)}

Drawn(t, j) == surface[t].rows[j + 1]

InputRow(t, j) == script[t].table_data[j + 1]

\* A row's cells with index 0 removed.
WithoutFirst(row) == [k \in 1..(Len(row) - 1) |-> row[k + 1]]

ExpectedVisible(t, j) ==
    IF script[t].edit_function THEN WithoutFirst(InputRow(t, j)) ELSE InputRow(t, j)

DrawnTexts(t, j) == [k \in 1..Len(Drawn(t, j).cells) |-> Drawn(t, j).cells[k].text]

ActionExpected(t, j) ==
    script[t].edit_function /\ (j # 0 \/ ~script[t].has_header)

(* ------------------------------ claims --------------------------------- *)

\* C1: activating the Edit action of row r invokes the callback with the
\* original cell at index 0 of that same row r, whatever was activated before.
C1_EditPassesOwnIdentifier ==
    lastClick # NoRow =>
        /\ Len(lastCalls) >= 1
        /\ \A k \in 1..Len(lastCalls) :
              lastCalls[k] = InputRow(lastClick.t, lastClick.r)[1]

C1_Witness ==
    /\ activations = 2
    /\ lastClick # NoRow
    /\ lastClick.r = 1
    /\ InputRow(lastClick.t, 1)[1] # InputRow(lastClick.t, 0)[1]
    /\ Len(InputRow(lastClick.t, 1)) >= 2
    /\ InputRow(lastClick.t, 1)[2] # InputRow(lastClick.t, 1)[1]
    /\ lastCalls = <<InputRow(lastClick.t, 1)[1]>>

\* C2: the callback is invoked only in response to an activation: a run with
\* no activation invokes it zero times, a run caused by an activation invokes
\* it exactly once, and the total number of invocations equals the number of
\* activations.
C2_OneInvocationPerActivation ==
    /\ (lastClick = NoRow => lastCalls = <<>>)
    /\ (lastClick # NoRow => Len(lastCalls) = 1)
    /\ invocations = activations

C2_Witness ==
    /\ activations = 2
    /\ invocations = 2
    /\ lastClick = NoRow
    /\ \E p \in SurfaceRows : p[2] = 1 /\ Drawn(p[1], 1).edit # NoEdit
                              /\ Drawn(p[1], 0).edit # NoEdit

\* C3: a rendered row r has an Edit action iff onEdit is set and (r is not 0
\* or hasHeader is false); no row, complete or not, has one otherwise.
C3_EditActionIffDataRow ==
    \A p \in SurfaceRows :
        /\ Drawn(p[1], p[2]).edit # NoEdit => ActionExpected(p[1], p[2])
        /\ Drawn(p[1], p[2]).done =>
              (Drawn(p[1], p[2]).edit # NoEdit <=> ActionExpected(p[1], p[2]))

C3_Witness ==
    \E t \in 1..Len(surface) :
        /\ script[t].edit_function
        /\ ~script[t].has_header
        /\ Len(surface[t].rows) = 3
        /\ Drawn(t, 0).done /\ Drawn(t, 0).edit # NoEdit
        /\ Drawn(t, 1).done /\ Drawn(t, 1).edit # NoEdit
        /\ Drawn(t, 2).done /\ Drawn(t, 2).edit # NoEdit

\* C4 (as claimed): a visible cell is emphasized iff it belongs to row 0 and
\* hasHeader is true.
C4_EmphasisIffHeader ==
    \A p \in SurfaceRows :
        \A k \in 1..Len(Drawn(p[1], p[2]).cells) :
            Drawn(p[1], p[2]).cells[k].emphasized
                <=> (p[2] = 0 /\ script[p[1]].has_header)

\* C5: every rendered row shows, in slots 0,1,2,... and in order, its cells
\* without index 0 when onEdit is set and all its cells otherwise; rows are
\* emitted in input order; rendering never modifies the input.
C5_RowsInOrder ==
    /\ \A t \in 1..Len(surface) :
          /\ Len(surface[t].rows) <= Len(script[t].table_data)
          /\ surface[t].err = NoError =>
                Len(surface[t].rows) = Len(script[t].table_data)
    /\ \A p \in SurfaceRows :
          /\ Drawn(p[1], p[2]).j = p[2]
          /\ \A k \in 1..Len(Drawn(p[1], p[2]).cells) :
                /\ Drawn(p[1], p[2]).cells[k].slot = k - 1
                /\ k <= Len(ExpectedVisible(p[1], p[2]))
                /\ Drawn(p[1], p[2]).cells[k].text = ExpectedVisible(p[1], p[2])[k]
          /\ Drawn(p[1], p[2]).done =>
                DrawnTexts(p[1], p[2]) = ExpectedVisible(p[1], p[2])

\* C5: the state part above holds in every state, and no step changes the
\* input table_data.
C5_VisibleCells ==
    /\ []C5_RowsInOrder
    /\ [][script' = script]_vars

C5_Witness ==
    \E p \in SurfaceRows :
        /\ script[p[1]].edit_function
        /\ p[2] = 1
        /\ Drawn(p[1], 1).done
        /\ Drawn(p[1], 1).edit # NoEdit
        /\ InputRow(p[1], 1) = <<"r1c0", "r1c1", "r1c2">>
        /\ DrawnTexts(p[1], 1) = <<"r1c1", "r1c2">>

\* C6: the background applied to row i is headerColor if i = 0 and
\* headerColor is set; otherwise the secondary theme color if
\* alternatingRowColors is true and i is even; otherwise transparent.
C6_RowBackground ==
    \A p \in SurfaceRows :
        Drawn(p[1], p[2]).done =>
            Drawn(p[1], p[2]).style =
                IF p[2] = 0 /\ script[p[1]].header_color # NoColor
                THEN script[p[1]].header_color
                ELSE IF script[p[1]].alternating_row_colors /\ p[2] % 2 = 0
                     THEN SecondaryBackgroundColor
                     ELSE Transparent

C6_Witness ==
    \E t \in 1..Len(surface) :
        /\ script[t].alternating_row_colors
        /\ script[t].header_color # NoColor
        /\ Len(surface[t].rows) = 3
        /\ Drawn(t, 0).done /\ Drawn(t, 0).style = script[t].header_color
        /\ Drawn(t, 1).done /\ Drawn(t, 1).style = Transparent
        /\ Drawn(t, 2).done /\ Drawn(t, 2).style = SecondaryBackgroundColor

\* C7 (as claimed): with columnLayout absent a rendered row gets as many slots
\* as it has visible cells, plus one only if it receives an Edit action.
C7_SlotsAreVisibleCells ==
    \A p \in SurfaceRows :
        (script[p[1]].column_formatting = 0 /\ Drawn(p[1], p[2]).done) =>
            Drawn(p[1], p[2]).nslots =
                Len(ExpectedVisible(p[1], p[2]))
                + (IF Drawn(p[1], p[2]).edit # NoEdit THEN 1 ELSE 0)

\* C7 (amended): with columnLayout absent every row gets as many slots as it
\* has cells, the identifier included: the number of visible cells when
\* onEdit is unset, and that number plus one on every row, the header row
\* included, when onEdit is set.
C7_SlotsAreRowLength ==
    \A p \in SurfaceRows :
        script[p[1]].column_formatting = 0 =>
            /\ Drawn(p[1], p[2]).nslots = Len(InputRow(p[1], p[2]))
            /\ Drawn(p[1], p[2]).nslots =
                  Len(ExpectedVisible(p[1], p[2]))
                  + (IF script[p[1]].edit_function THEN 1 ELSE 0)

C7_Witness ==
    \E t \in 1..Len(surface) :
        /\ script[t].column_formatting = 0
        /\ script[t].edit_function
        /\ script[t].has_header
        /\ Len(surface[t].rows) = 3
        /\ Drawn(t, 0).done
        /\ Drawn(t, 0).edit = NoEdit
        /\ Len(Drawn(t, 0).cells) = 2
        /\ Drawn(t, 0).nslots = 3
        /\ Drawn(t, 1).done

\* C8 (as claimed): when an explicit columnLayout has fewer slots than a row
\* needs (visible cells, plus one for an Edit action), that row fails with a
\* configuration error before any of its cells or its action is drawn.
C8_FailsBeforeDrawing ==
    \A p \in SurfaceRows :
        (/\ script[p[1]].column_formatting > 0
         /\ script[p[1]].column_formatting <
               Len(ExpectedVisible(p[1], p[2]))
               + (IF ActionExpected(p[1], p[2]) THEN 1 ELSE 0)) =>
            /\ Drawn(p[1], p[2]).cells = <<>>
            /\ Drawn(p[1], p[2]).edit = NoEdit
            /\ surface[p[1]].err = "ConfigurationError"

\* C9 (as claimed): the identity keys of the table container, the row
\* containers and the Edit buttons of one table instance are used by no other
\* table instance of the same run.
C9_KeysUniquePerTable ==
    \A t1, t2 \in 1..Len(surface) :
        t1 # t2 => surface[t1].requested \cap surface[t2].requested = {}

\* C10 (as claimed): the Edit action of a row sits in the slot whose index is
\* the number of visible cells of that same row.
C10_ActionAfterLastVisibleCell ==
    \A p \in SurfaceRows :
        Drawn(p[1], p[2]).edit # NoEdit =>
            Drawn(p[1], p[2]).edit = Len(ExpectedVisible(p[1], p[2]))

====
